---- MODULE Spec2Model ----
(***************************************************************************)
(* The articles application: the Article and Comments tables               *)
(* (articles/models.py), the comment form (articles/forms.py) and the      *)
(* class-based views of articles/views.py, as a state machine over the     *)
(* record store.                                                           *)
(*                                                                         *)
(* Every handler is an operator from the current store and the request's   *)
(* inputs to an outcome (the response and the store it leaves); the        *)
(* action of the handler applies that outcome.  Requests run concurrently  *)
(* and the store is the only thing they share.  A comment POST reads or    *)
(* writes it four times (get_object in post, the author choices of the     *)
(* form, comment.save(), get_object in get_success_url) and each access is *)
(* a step of its own; an edit or delete POST is two steps, test_func's     *)
(* lookup and then the view's own lookup with its write.  Between two      *)
(* steps the request waits in `inflight'.  A write is one statement of the *)
(* store, whose foreign keys it enforces.                                  *)
(*                                                                         *)
(* A text (title, body, comment) is abstracted to its shape: the number of *)
(* surrounding whitespace characters and the number of characters that     *)
(* remain once they are stripped.                                          *)
(***************************************************************************)
EXTENDS Integers, FiniteSets, Bags, TLC

\* ------------------------------------------------------------------ bounds
NumUsers == 2
MaxArticles == 2
MaxComments == 2
MaxInFlight == 2

\* ------------------------------------------------------- program constants
TitleMaxLength == 200
CommentMaxLength == 200

\* ------------------------------------------------------------------ inputs
Users == 1 .. NumUsers
\* A request without an authenticated session.
Anon == 0
ArticlePks == 1 .. MaxArticles
\* A submitted text: pad surrounding blanks, len characters once stripped.
Text(pad, len) == [pad |-> pad, len |-> len]
\* Submitted comment texts: empty, blank, at the length bound with and
\* without surrounding blanks, and past it.
CommentTexts ==
  {Text(p, l) : p \in {0, 1}, l \in {0, CommentMaxLength, CommentMaxLength + 1}}
\* Submitted article forms, <<title, body>>: two valid ones, and one for
\* each way a field fails.
ArticleForms ==
  { <<Text(0, 1), Text(0, 1)>>, <<Text(1, TitleMaxLength), Text(1, 2)>>,
    <<Text(0, 0), Text(0, 1)>>, <<Text(1, 0), Text(0, 1)>>,
    <<Text(0, TitleMaxLength + 1), Text(0, 1)>>, <<Text(0, 1), Text(1, 0)>> }
\* The posted author field of the comment form: a user pk, or 0 when left out.
AuthorChoices == Users \cup {0}

VARIABLES
  users,        \* pks of the rows of the user table
  articles,     \* Article rows: pk -> [title, body, date, author]
  nextArticle,  \* the pk the store gives the next Article row
  comments,     \* Comments rows: pk -> [article, comment, author]
  nextComment,  \* the pk the store gives the next Comments row
  inflight,     \* bag of the requests between two store accesses
  resp,         \* the last response sent
  creator       \* history: pk -> the requester whose POST created the article
                \* (kept for the articles in the store)

vars == <<users, articles, nextArticle, comments, nextComment, inflight, resp, creator>>

\* --------------------------------------------------------------- responses
Response(code, to, pk) == [code |-> code, to |-> to, pk |-> pk]
Rendered == Response(200, "", 0)
RenderedArticle(pk) == Response(200, "article", pk)
\* The article page rendered again around the bound form and its errors.
RenderedErrors(pk) == Response(200, "article_form_errors", pk)
LoginRedirect == Response(302, "login", 0)
DetailRedirect(pk) == Response(302, "article_detail", pk)
ListRedirect == Response(302, "article_list", 0)
NotFound == Response(404, "", 0)
Forbidden == Response(403, "", 0)
ServerError == Response(500, "", 0)
NoResponse == Response(0, "", 0)

\* A request between two store accesses: the view step it waits for and
\* what that step and the later ones still read: the requester (0 once
\* request.user is read no more), the article pk of its URL and, for a
\* comment POST, the cleaned form data and the pk of the row it saved.
Request(step, u, pk, author, text, saved) ==
  [step |-> step, user |-> u, art |-> pk, author |-> author, text |-> text,
   saved |-> saved]

\* An outcome: the response, the store the handler leaves, and the request
\* as it waits for its next step (none once it is answered).
Unchanged(r) ==
  [resp |-> r, users |-> users, articles |-> articles, nextArticle |-> nextArticle,
   comments |-> comments, nextComment |-> nextComment, next |-> {}]
Continue(req) == [Unchanged(NoResponse) EXCEPT !.next = {req}]

Apply(o) ==
  /\ resp' = o.resp
  /\ users' = o.users
  /\ articles' = o.articles
  /\ nextArticle' = o.nextArticle
  /\ comments' = o.comments
  /\ nextComment' = o.nextComment

\* ------------------------------------------------------------------- forms
\* forms.CharField.clean: strip, required, max_length.  0 when invalid, else
\* the cleaned value (the stripped text).
Strip(t) == t.len
CleanChar(t, max) == IF Strip(t) = 0 \/ Strip(t) > max THEN 0 ELSE Strip(t)
CleanText(t) == Strip(t)

\* ------------------------------------------------------------------- store
Restrict(f, S) == [x \in S |-> f[x]]
Insert(f, k, v) == [x \in DOMAIN f \cup {k} |-> IF x = k THEN v ELSE f[x]]
CommentsOf(pk) == {c \in DOMAIN comments : comments[c].article = pk}

\* LoginRequiredMixin: request.user.is_authenticated.
IsAuthenticated(u) == u \in users
\* SingleObjectMixin.get_object over model = Article.
Exists(pk) == pk \in DOMAIN articles

\* Mutant of DeleteArticleRows: the article row alone is removed.
DeleteArticleRows_nocascade(pk) ==
  [Unchanged(ListRedirect) EXCEPT
     !.articles = Restrict(articles, DOMAIN articles \ {pk})]

\* The rows a delete of Article pk removes: on_delete=CASCADE of Comments.article.
DeleteArticleRows(pk) ==
  [Unchanged(ListRedirect) EXCEPT
     !.articles = Restrict(articles, DOMAIN articles \ {pk}),
     !.comments = Restrict(comments, DOMAIN comments \ CommentsOf(pk))]

\* The rows a delete of user u removes: on_delete=CASCADE of Article.author,
\* of Comments.author and, through the deleted articles, of Comments.article.
DeleteUserRows(u) ==
  LET gone == {pk \in DOMAIN articles : articles[pk].author = u}
      keep == {c \in DOMAIN comments :
                 comments[c].author # u /\ comments[c].article \notin gone}
  IN [Unchanged(resp) EXCEPT
        !.users = users \ {u},
        !.articles = Restrict(articles, DOMAIN articles \ gone),
        !.comments = Restrict(comments, keep)]

\* Mutant of CommentKeysResolve: no constraint on the row's foreign keys.
CommentKeysResolve_unchecked(row) == TRUE

\* The foreign keys of a Comments row resolve (db_constraint of ForeignKey).
CommentKeysResolve(row) == row.article \in DOMAIN articles /\ row.author \in users

\* Mutant of InsertComment: the pk is not advanced, a later row takes it again.
InsertComment_samepk(row) ==
  [Unchanged(NoResponse) EXCEPT !.comments = Insert(comments, nextComment, row)]

\* INSERT of a Comments row: the store assigns the pk; a row whose foreign
\* keys do not resolve is refused (IntegrityError) and nothing is written.
InsertComment(row) ==
  [Unchanged(NoResponse) EXCEPT
     !.comments = Insert(comments, nextComment, row),
     !.nextComment = nextComment + 1]

\* ---------------------------------------------------------- ArticleListView
ArticleListView_get(u) ==
  IF ~IsAuthenticated(u) THEN Unchanged(LoginRedirect) ELSE Unchanged(Rendered)

\* -------------------------------------------------------- ArticleDetailView
\* CommentGet: DetailView.get with the blank CommentForm in the context.
CommentGet_get(pk) ==
  IF ~Exists(pk) THEN Unchanged(NotFound) ELSE Unchanged(RenderedArticle(pk))

ArticleDetailView_get(u, pk) ==
  IF ~IsAuthenticated(u) THEN Unchanged(LoginRedirect) ELSE CommentGet_get(pk)

\* Mutant of CommentPost_post: no lookup of the article.
CommentPost_post_unchecked(u, pk) == Continue(Request("form", u, pk, 0, 0, 0))

\* CommentPost.post: self.object = self.get_object().
CommentPost_post(u, pk) ==
  IF ~Exists(pk) THEN Unchanged(NotFound)
  ELSE Continue(Request("form", u, pk, 0, 0, 0))

ArticleDetailView_post(u, pk) ==
  IF ~IsAuthenticated(u) THEN Unchanged(LoginRedirect) ELSE CommentPost_post(u, pk)

\* Mutant of CommentForm_is_valid: the comment may be blank.
CommentForm_is_valid_blank(t, a) == Strip(t) <= CommentMaxLength /\ a \in users

\* CommentForm.is_valid over fields = ("comment", "author"): the comment is a
\* required CharField(max_length=200), the author a required choice among
\* the users.
CommentForm_is_valid(t, a) == CleanChar(t, CommentMaxLength) # 0 /\ a \in users

\* FormView.post: form_valid when the form is valid, else form_invalid, which
\* renders the template with self.object in the context.
CommentPost_form(r, t, a) ==
  IF CommentForm_is_valid(t, a)
  THEN Continue(Request("save", 0, r.art, a, CleanChar(t, CommentMaxLength), 0))
  ELSE Unchanged(RenderedErrors(r.art))

\* CommentPost.form_valid: comment = form.save(commit=False);
\* comment.article = self.object; comment.save().
CommentPost_form_valid(r) ==
  LET row == [article |-> r.art, comment |-> r.text, author |-> r.author]
  IN IF CommentKeysResolve(row)
     THEN [InsertComment(row) EXCEPT
             !.next = {Request("success_url", 0, r.art, 0, 0, nextComment)}]
     ELSE Unchanged(ServerError)

\* CommentPost.get_success_url: article = self.get_object(); reverse(...).
CommentPost_get_success_url(r) ==
  IF ~Exists(r.art) THEN Unchanged(NotFound) ELSE Unchanged(DetailRedirect(r.art))

\* -------------------------------------------------------- ArticleCreateView
\* The modelform of fields = ("title", "body"): title a required
\* CharField(max_length=200), body a required text.
ArticleForm_is_valid(title, body) ==
  CleanChar(title, TitleMaxLength) # 0 /\ CleanText(body) # 0

\* Mutant of ArticleCreateView_author: the author is a field of the form.
ArticleCreateView_author_posted(u, posted) == posted

\* ArticleCreateView.form_valid: form.instance.author = self.request.user.
\* posted is an author value sent along with the form, which has no such field.
ArticleCreateView_author(u, posted) == u

\* INSERT of an Article row: date is auto_now_add; the store's insertion
\* count stands for the clock.
InsertArticle(row) ==
  [Unchanged(DetailRedirect(nextArticle)) EXCEPT
     !.articles = Insert(articles, nextArticle, [row EXCEPT !.date = nextArticle]),
     !.nextArticle = nextArticle + 1]

ArticleCreateView_get(u) ==
  IF ~IsAuthenticated(u) THEN Unchanged(LoginRedirect) ELSE Unchanged(Rendered)

ArticleCreateView_post(u, title, body, posted) ==
  IF ~IsAuthenticated(u) THEN Unchanged(LoginRedirect)
  ELSE IF ~ArticleForm_is_valid(title, body) THEN Unchanged(Rendered)
  ELSE InsertArticle([title |-> CleanChar(title, TitleMaxLength),
                      body |-> CleanText(body), date |-> 0,
                      author |-> ArticleCreateView_author(u, posted)])

\* -------------------------------------------------------- ArticleUpdateView
\* Mutant of test_func: every authenticated requester passes.
test_func_anyone(u, pk) == TRUE

\* test_func of ArticleUpdateView and of ArticleDeleteView:
\* obj = self.get_object(); return obj.author == self.request.user.
test_func(u, pk) == articles[pk].author = u

\* Mutant of OwnerDispatch: UserPassesTestMixin ahead of LoginRequiredMixin.
OwnerDispatch_test_first(u, pk) ==
  IF ~Exists(pk) THEN NotFound
  ELSE IF articles[pk].author # u THEN Forbidden
  ELSE IF ~IsAuthenticated(u) THEN LoginRedirect
  ELSE NoResponse

\* dispatch of LoginRequiredMixin, then of UserPassesTestMixin: the response
\* that ends the request there, or NoResponse when the view goes on.
OwnerDispatch(u, pk) ==
  IF ~IsAuthenticated(u) THEN LoginRedirect
  ELSE IF ~Exists(pk) THEN NotFound
  ELSE IF ~test_func(u, pk) THEN Forbidden
  ELSE NoResponse

\* UPDATE of the fields of the edit form, fields = ("title", "body").
UpdateArticle(pk, title, body) ==
  [Unchanged(DetailRedirect(pk)) EXCEPT
     !.articles = [articles EXCEPT ![pk].title = title, ![pk].body = body]]

\* GET: the edit form over the article.
ArticleUpdateView_get(u, pk) ==
  IF OwnerDispatch(u, pk) # NoResponse THEN Unchanged(OwnerDispatch(u, pk))
  ELSE Unchanged(RenderedArticle(pk))

\* POST, up to the end of dispatch's test.
ArticleUpdateView_dispatch(u, pk) ==
  IF OwnerDispatch(u, pk) # NoResponse THEN Unchanged(OwnerDispatch(u, pk))
  ELSE Continue(Request("update", 0, pk, 0, 0, 0))

\* BaseUpdateView.post: self.object = self.get_object(), then the form.
ArticleUpdateView_post(r, title, body) ==
  IF ~Exists(r.art) THEN Unchanged(NotFound)
  ELSE IF ~ArticleForm_is_valid(title, body) THEN Unchanged(RenderedErrors(r.art))
  ELSE UpdateArticle(r.art, CleanChar(title, TitleMaxLength), CleanText(body))

\* -------------------------------------------------------- ArticleDeleteView
\* GET: the confirmation page.
ArticleDeleteView_get(u, pk) ==
  IF OwnerDispatch(u, pk) # NoResponse THEN Unchanged(OwnerDispatch(u, pk))
  ELSE Unchanged(RenderedArticle(pk))

ArticleDeleteView_dispatch(u, pk) ==
  IF OwnerDispatch(u, pk) # NoResponse THEN Unchanged(OwnerDispatch(u, pk))
  ELSE Continue(Request("delete", 0, pk, 0, 0, 0))

\* BaseDeleteView.post: self.object = self.get_object(); self.object.delete();
\* redirect to success_url.
ArticleDeleteView_post(r) ==
  IF ~Exists(r.art) THEN Unchanged(NotFound) ELSE DeleteArticleRows(r.art)

\* ------------------------------------------------------------------ actions
Requesters == users \cup {Anon}
Waiting(step) == {r \in BagToSet(inflight) : r.step = step}
Arrive(o) == inflight' = inflight (+) SetToBag(o.next)
Advance(r, o) == inflight' = (inflight (-) SetToBag({r})) (+) SetToBag(o.next)
Room == BagCardinality(inflight) < MaxInFlight

Init ==
  /\ users = Users
  /\ articles = <<>>
  /\ nextArticle = 1
  /\ comments = <<>>
  /\ nextComment = 1
  /\ inflight = EmptyBag
  /\ resp = NoResponse
  /\ creator = <<>>

ListGet ==
  \E u \in Requesters :
    /\ Apply(ArticleListView_get(u))
    /\ UNCHANGED <<inflight, creator>>

DetailGet ==
  \E u \in Requesters, pk \in ArticlePks :
    /\ Apply(ArticleDetailView_get(u, pk))
    /\ UNCHANGED <<inflight, creator>>

DetailPost ==
  \E u \in Requesters, pk \in ArticlePks :
    LET o == ArticleDetailView_post(u, pk)
    IN /\ o.next # {} => Room
       /\ Apply(o)
       /\ Arrive(o)
       /\ UNCHANGED creator

CommentForm ==
  \E r \in Waiting("form"), t \in CommentTexts, a \in AuthorChoices :
    LET o == CommentPost_form(r, t, a)
    IN /\ Apply(o)
       /\ Advance(r, o)
       /\ UNCHANGED creator

CommentSave ==
  \E r \in Waiting("save") :
    LET o == CommentPost_form_valid(r)
    IN /\ o.next # {} => nextComment <= MaxComments
       /\ Apply(o)
       /\ Advance(r, o)
       /\ UNCHANGED creator

CommentSuccessUrl ==
  \E r \in Waiting("success_url") :
    LET o == CommentPost_get_success_url(r)
    IN /\ Apply(o)
       /\ Advance(r, o)
       /\ UNCHANGED creator

NewGet ==
  \E u \in Requesters :
    /\ Apply(ArticleCreateView_get(u))
    /\ UNCHANGED <<inflight, creator>>

NewPost ==
  \E u \in Requesters, f \in ArticleForms, posted \in Users :
    LET o == ArticleCreateView_post(u, f[1], f[2], posted)
    IN /\ o.nextArticle # nextArticle => nextArticle <= MaxArticles
       /\ Apply(o)
       /\ creator' = IF o.nextArticle # nextArticle
                      THEN Insert(creator, nextArticle, u) ELSE creator
       /\ UNCHANGED inflight

EditGet ==
  \E u \in Requesters, pk \in ArticlePks :
    /\ Apply(ArticleUpdateView_get(u, pk))
    /\ UNCHANGED <<inflight, creator>>

EditDispatch ==
  \E u \in Requesters, pk \in ArticlePks :
    LET o == ArticleUpdateView_dispatch(u, pk)
    IN /\ o.next # {} => Room
       /\ Apply(o)
       /\ Arrive(o)
       /\ UNCHANGED creator

EditPost ==
  \E r \in Waiting("update"), f \in ArticleForms :
    LET o == ArticleUpdateView_post(r, f[1], f[2])
    IN /\ Apply(o)
       /\ Advance(r, o)
       /\ UNCHANGED creator

DeleteGet ==
  \E u \in Requesters, pk \in ArticlePks :
    /\ Apply(ArticleDeleteView_get(u, pk))
    /\ UNCHANGED <<inflight, creator>>

DeleteDispatch ==
  \E u \in Requesters, pk \in ArticlePks :
    LET o == ArticleDeleteView_dispatch(u, pk)
    IN /\ o.next # {} => Room
       /\ Apply(o)
       /\ Arrive(o)
       /\ UNCHANGED creator

DeletePost ==
  \E r \in Waiting("delete") :
    LET o == ArticleDeleteView_post(r)
    IN /\ Apply(o)
       /\ Advance(r, o)
       /\ creator' = Restrict(creator, DOMAIN articles')

UserDelete ==
  \E u \in users :
    /\ Apply(DeleteUserRows(u))
    /\ creator' = Restrict(creator, DOMAIN articles')
    /\ UNCHANGED inflight

Next ==
  \/ ListGet
  \/ DetailGet
  \/ DetailPost
  \/ CommentForm
  \/ CommentSave
  \/ CommentSuccessUrl
  \/ NewGet
  \/ NewPost
  \/ EditGet
  \/ EditDispatch
  \/ EditPost
  \/ DeleteGet
  \/ DeleteDispatch
  \/ DeletePost
  \/ UserDelete

Spec == Init /\ [][Next]_vars

\* The requests that delete nothing: no article delete POST, no user delete.
NextNoDelete ==
  \/ ListGet
  \/ DetailGet
  \/ DetailPost
  \/ CommentForm
  \/ CommentSave
  \/ CommentSuccessUrl
  \/ NewGet
  \/ NewPost
  \/ EditGet
  \/ EditDispatch
  \/ EditPost
  \/ DeleteGet

SpecNoDelete == Init /\ [][NextNoDelete]_vars

\* ------------------------------------------------------------------- claims
\* The outcome leaves every table as it is and answers the request.
StoreKept(o) ==
  /\ o.users = users
  /\ o.articles = articles
  /\ o.nextArticle = nextArticle
  /\ o.comments = comments
  /\ o.nextComment = nextComment
Answers(o, r) == o.resp = r /\ o.next = {} /\ StoreKept(o)

\* The requesters without an authenticated session: no session at all, or
\* the session of a user whose row is gone.
Unauthenticated == (Users \cup {Anon}) \ users

\* C1: in every reachable state, an edit or delete request (GET or POST) of an
\* authenticated requester against an existing article of another author is
\* answered Forbidden, and the articles and the comments stay as they are.
C1_NonOwnerForbidden ==
  \A u \in users, pk \in DOMAIN articles :
    articles[pk].author # u =>
      /\ Answers(ArticleUpdateView_get(u, pk), Forbidden)
      /\ Answers(ArticleUpdateView_dispatch(u, pk), Forbidden)
      /\ Answers(ArticleDeleteView_get(u, pk), Forbidden)
      /\ Answers(ArticleDeleteView_dispatch(u, pk), Forbidden)

\* C1 witness: a request was just answered Forbidden while an article with a
\* comment and a user who is not its author are in the store.
C1_Witness ==
  /\ resp = Forbidden
  /\ \E u \in users, pk \in DOMAIN articles :
       articles[pk].author # u /\ CommentsOf(pk) # {}

\* C2 (as claimed): a valid comment submitted by requester U on an existing
\* article goes on to save a row whose author is U.
C2_AuthorIsSubmitter ==
  \A r \in Waiting("form"), t \in CommentTexts, a \in AuthorChoices :
    CleanChar(t, CommentMaxLength) # 0 =>
      \E q \in CommentPost_form(r, t, a).next :
        q.step = "save" /\ q.art = r.art /\ q.author = r.user

\* C3: in every reachable state each article's author is the requester whose
\* create request made it, whatever was posted along and whatever was edited.
C3_AuthorIsCreator ==
  /\ DOMAIN creator = DOMAIN articles
  /\ \A pk \in DOMAIN articles : articles[pk].author = creator[pk]

\* C3 witness: an article made by user 2 is in the store with a comment on
\* it, after every article pk was given out and one article was removed.
C3_Witness ==
  /\ nextArticle > MaxArticles
  /\ Cardinality(DOMAIN articles) < MaxArticles
  /\ \E pk \in DOMAIN articles :
       creator[pk] = 2 /\ articles[pk].author = 2 /\ CommentsOf(pk) # {}

\* C4: in every reachable state, for an authenticated requester and a pk with
\* no article, GET and POST of the detail route are both answered NotFound and
\* the comments (and the rest of the store) stay as they are.
C4_MissingArticleNotFound ==
  \A u \in users, pk \in ArticlePks \ DOMAIN articles :
    /\ Answers(ArticleDetailView_get(u, pk), NotFound)
    /\ Answers(ArticleDetailView_post(u, pk), NotFound)

\* C4 witness: a request was just answered NotFound while comments are in the
\* store and some pk has no article.
C4_Witness ==
  /\ resp = NotFound
  /\ comments # <<>>
  /\ users # {}
  /\ ArticlePks \ DOMAIN articles # {}

\* C5: a comment POST on an existing article passes post() without touching
\* the store, and with an empty or blank comment its form step renders the
\* page of the same article again (200, no redirect) and saves nothing.
C5_EmptyCommentRerenders ==
  /\ \A u \in users, pk \in DOMAIN articles :
       LET o == ArticleDetailView_post(u, pk)
       IN StoreKept(o) /\ o.next = {Request("form", u, pk, 0, 0, 0)}
  /\ \A r \in Waiting("form"), t \in CommentTexts, a \in AuthorChoices :
       Strip(t) = 0 => Answers(CommentPost_form(r, t, a), RenderedErrors(r.art))

\* C5 witness: the form page was just rendered again for an article which is
\* in the store, while no request waits.
C5_Witness ==
  /\ resp.to = "article_form_errors"
  /\ resp.pk \in DOMAIN articles
  /\ inflight = EmptyBag

\* C6: the delete step of an owner's delete request whose article is still
\* there removes the article and every comment on it, and redirects to the list.
C6_DeleteCascades ==
  \A r \in Waiting("delete") :
    Exists(r.art) =>
      LET o == ArticleDeleteView_post(r)
      IN /\ o.resp = ListRedirect
         /\ r.art \notin DOMAIN o.articles
         /\ \A c \in DOMAIN o.comments : o.comments[c].article # r.art
         /\ \A pk \in DOMAIN articles \ {r.art} :
              pk \in DOMAIN o.articles /\ o.articles[pk] = articles[pk]

\* C6 witness: a delete was just answered with the redirect to the list, and
\* the only article ever made is gone together with its MaxComments comments.
C6_Witness ==
  /\ resp = ListRedirect
  /\ users = Users
  /\ nextArticle = 2
  /\ articles = <<>>
  /\ nextComment = MaxComments + 1
  /\ comments = <<>>

\* C7: in every reachable state every comment row refers to an article which
\* is in the store (and to an author who is).
C7_NoOrphanComments ==
  \A c \in DOMAIN comments :
    comments[c].article \in DOMAIN articles /\ comments[c].author \in users

\* C7 witness: the save of a comment was just refused because its article (or
\* author) had been deleted meanwhile, and another comment is in the store.
C7_Witness ==
  /\ resp = ServerError
  /\ comments # <<>>

\* C8: in every reachable state every article route answers a request with no
\* authenticated session with the redirect to the login, and leaves the store
\* as it is.
C8_AnonymousRedirected ==
  \A u \in Unauthenticated :
    /\ Answers(ArticleListView_get(u), LoginRedirect)
    /\ Answers(ArticleCreateView_get(u), LoginRedirect)
    /\ \A f \in ArticleForms, posted \in Users :
         Answers(ArticleCreateView_post(u, f[1], f[2], posted), LoginRedirect)
    /\ \A pk \in ArticlePks :
         /\ Answers(ArticleDetailView_get(u, pk), LoginRedirect)
         /\ Answers(ArticleDetailView_post(u, pk), LoginRedirect)
         /\ Answers(ArticleUpdateView_get(u, pk), LoginRedirect)
         /\ Answers(ArticleUpdateView_dispatch(u, pk), LoginRedirect)
         /\ Answers(ArticleDeleteView_get(u, pk), LoginRedirect)
         /\ Answers(ArticleDeleteView_dispatch(u, pk), LoginRedirect)

\* C8 witness: a request was just redirected to the login while an article
\* with a comment is in the store and one pk has no article.
C8_Witness ==
  /\ resp = LoginRedirect
  /\ comments # <<>>
  /\ ArticlePks \ DOMAIN articles # {}

\* C9 (with no delete running): every save adds one row under a fresh pk and
\* keeps the rows there are, so the rows are as many as the saves; every
\* submission that saved finds its own row on its article, shares it with no
\* other submission, and ends in the redirect to the article.
C9_IndependentInserts ==
  /\ Cardinality(DOMAIN comments) = nextComment - 1
  /\ \A r \in Waiting("save") :
       LET o == CommentPost_form_valid(r)
       IN /\ o.resp = NoResponse
          /\ Cardinality(DOMAIN o.comments) = Cardinality(DOMAIN comments) + 1
          /\ \A c \in DOMAIN comments : o.comments[c] = comments[c]
          /\ \A q \in o.next :
               /\ q.saved \notin DOMAIN comments
               /\ o.comments[q.saved] =
                    [article |-> r.art, comment |-> r.text, author |-> r.author]
  /\ \A r \in Waiting("success_url") :
       /\ r.saved \in DOMAIN comments
       /\ comments[r.saved].article = r.art
       /\ CopiesIn(r, inflight) = 1
       /\ Answers(CommentPost_get_success_url(r), DetailRedirect(r.art))

\* C9 witness: two submissions on the same article have both saved and both
\* wait for get_success_url, each with a row of its own.
C9_Witness ==
  \E r, q \in Waiting("success_url") :
    /\ r.art = q.art
    /\ r.saved # q.saved
    /\ {r.saved, q.saved} \subseteq CommentsOf(r.art)

\* C10 (as claimed): while no user is deleted, a comment POST that saved its
\* row ends in the redirect to the article, and one that is answered without
\* a redirect saved none, also when the owner's delete of the article runs
\* between its steps.
C10_RedirectIffSaved ==
  users = Users =>
    /\ \A r \in Waiting("form"), t \in CommentTexts, a \in AuthorChoices :
         LET o == CommentPost_form(r, t, a)
         IN o.next = {} => o.resp = RenderedErrors(r.art) /\ StoreKept(o)
    /\ \A r \in Waiting("save") :
         LET o == CommentPost_form_valid(r)
         IN o.next = {} => o.resp = ServerError /\ StoreKept(o)
    /\ \A r \in Waiting("success_url") :
         CommentPost_get_success_url(r).resp = DetailRedirect(r.art)

====
